---- MODULE Spec2Model ----
(***************************************************************************)
(* Model of SQUIDv0 (src/src/versions/v0.rs): the generator's three        *)
(* fields, its constructor `new` and its single operation `generate`.      *)
(*                                                                         *)
(* Strings are sequences of byte values, so that concatenation, length     *)
(* and Rust's byte-wise lexicographic String order are real operations:    *)
(* '-' is 45, '0'..'9' are 48..57, 'A' is 65.                              *)
(*                                                                         *)
(* counter is a usize and `counter += 1` overflows at 2^64 - 1; that needs *)
(* 2^64 calls within one millisecond and lies outside every bound used     *)
(* here (the guards cap the counter at MaxCounter).                        *)
(***************************************************************************)
EXTENDS Integers, Sequences, FiniteSets, TLC

VARIABLES
    device_uuid,      \* SQUIDv0.device_uuid : String
    counter,          \* SQUIDv0.counter : usize
    last_timestamp,   \* SQUIDv0.last_timestamp : u128
    device_uuid_arg,  \* the Option<&str> handed to new
    machine_uuid_get, \* what machine_uuid::get() answers on this host
    pc,               \* outcome of the latest operation: "new", "returned", "panicked"
    timestamp,        \* generate's local `timestamp` in the latest call
    ret,              \* the String the latest call returned (<<>> when it returned none)
    generated_ids,    \* the caller's record of the returned IDs, in call order
    reads,            \* the millisecond reading of every call so far, in call order
    before_epoch,     \* whether the clock showed a pre-epoch instant in the latest call
    run,              \* position in the "same millisecond n times, then the next one" scenario
    clock,            \* the instant a shared generator's clock shows now
    lock,             \* holder of the mutex around a shared generator, NoHolder when free
    callers           \* per concurrent caller: position, its call's local `timestamp`, IDs received

vars == <<device_uuid, counter, last_timestamp, device_uuid_arg, machine_uuid_get,
          pc, timestamp, ret, generated_ids, reads, before_epoch, run,
          clock, lock, callers>>

shared == <<clock, lock, callers>>

fields == <<device_uuid, counter, last_timestamp>>

----------------------------------------------------------------------------
(* Bounds *)

MaxCalls == 3          \* calls made by the recording caller (total_ids in the test)
MaxTime == 10          \* largest millisecond the recording caller's clock shows
TicksPerMs == 2        \* clock resolution: instants per millisecond
MaxCounter == 10001    \* cap of the counter in the long-run specification
MinLongTime == 8       \* the long-run clock shows 0 and MinLongTime..MaxLongTime
MaxLongTime == 10
NumCallers == 2        \* concurrent callers that share one generator
MaxSharedCalls == 2    \* calls each of them makes
MaxClock == 4          \* last instant the shared generator's clock reaches

(* Program constants *)

PadWidth == 4          \* the minimum width in format!("{:04}", ..)

HYPHEN == 45
ZERO == 48

NoTimestamp == -1      \* `timestamp` was never assigned (no call yet, or the call panicked)

NoHolder == 0          \* the mutex is free
Callers == 1 .. NumCallers

----------------------------------------------------------------------------
(* Text *)

RECURSIVE ToDec(_)
\* Display for an unsigned integer: decimal digits, no padding, no sign.
ToDec(n) ==
    IF n < 10 THEN <<ZERO + n>>
    ELSE ToDec(n \div 10) \o <<ZERO + (n % 10)>>

RECURSIVE PadZero(_, _)
\* The `0` flag with a width: zeros on the left up to a minimum width.
PadZero(s, w) ==
    IF Len(s) >= w THEN s ELSE PadZero(<<ZERO>> \o s, w)

RECURSIVE Zeros(_)
Zeros(n) == IF n = 0 THEN <<>> ELSE <<ZERO>> \o Zeros(n - 1)

\* "00000000-0000-0000-0000-000000000000"
DefaultUuid ==
    Zeros(8) \o <<HYPHEN>> \o Zeros(4) \o <<HYPHEN>> \o Zeros(4) \o <<HYPHEN>>
        \o Zeros(4) \o <<HYPHEN>> \o Zeros(12)

\* let counter_str = format!("{:04}", self.counter);
FormatCounterNoPad(n) == ToDec(n)

FormatCounterNarrow(n) == PadZero(ToDec(n), PadWidth - 1)

FormatCounter(n) == PadZero(ToDec(n), PadWidth)

\* format!("{}-{}-{}", self.device_uuid, timestamp, counter_str)
FormatId(uuid, ts, counter_str) ==
    uuid \o <<HYPHEN>> \o ToDec(ts) \o <<HYPHEN>> \o counter_str

----------------------------------------------------------------------------
(* Construction *)

None == [some |-> FALSE, val |-> <<>>]
Some(s) == [some |-> TRUE, val |-> s]
Ok(s) == [ok |-> TRUE, val |-> s]
Err == [ok |-> FALSE, val |-> <<>>]

\* "X-7" and "A": identifiers a caller may pass; no validation is applied to them
ExplicitIds == { <<88, HYPHEN, 55>>, <<65>> }
\* "B7": what the host's identity lookup answers when it succeeds
HostIds == { <<66, 55>> }

Args == {None} \cup { Some(s) : s \in ExplicitIds }
HostAnswers == {Err} \cup { Ok(s) : s \in HostIds }

NewIgnoringArg(arg, host) ==
    [device_uuid |-> IF host.ok THEN host.val ELSE DefaultUuid,
     counter |-> 0,
     last_timestamp |-> 0]

NewEmptyFallback(arg, host) ==
    [device_uuid |-> IF arg.some THEN arg.val
                     ELSE IF host.ok THEN host.val ELSE <<>>,
     counter |-> 0,
     last_timestamp |-> 0]

NewLastOne(arg, host) ==
    [device_uuid |-> IF arg.some THEN arg.val
                     ELSE IF host.ok THEN host.val ELSE DefaultUuid,
     counter |-> 0,
     last_timestamp |-> 1]

\* pub fn new(device_uuid: Option<&str>) -> Self
New(arg, host) ==
    [device_uuid |-> IF arg.some THEN arg.val
                     ELSE IF host.ok THEN host.val ELSE DefaultUuid,
     counter |-> 0,
     last_timestamp |-> 0]

Init ==
    /\ device_uuid_arg \in Args
    /\ machine_uuid_get \in HostAnswers
    /\ device_uuid = New(device_uuid_arg, machine_uuid_get).device_uuid
    /\ counter = New(device_uuid_arg, machine_uuid_get).counter
    /\ last_timestamp = New(device_uuid_arg, machine_uuid_get).last_timestamp
    /\ pc = "new"
    /\ timestamp = NoTimestamp
    /\ ret = <<>>
    /\ generated_ids = <<>>
    /\ reads = <<>>
    /\ before_epoch = FALSE
    /\ run = [phase |-> "fresh", t |-> 0, i |-> 0]
    /\ clock = 0
    /\ lock = NoHolder
    /\ callers = [c \in Callers |-> [pc |-> "idle", timestamp |-> NoTimestamp, n |-> 0]]

----------------------------------------------------------------------------
(* Production *)

\* A clock instant is an integer count of ticks relative to the Unix epoch;
\* negative instants lie before it.
DurationSinceAbs(now) ==
    [ok |-> TRUE, val |-> IF now >= 0 THEN now ELSE 0 - now]

DurationSinceStrict(now) ==
    IF now > 0 THEN [ok |-> TRUE, val |-> now] ELSE [ok |-> FALSE, val |-> 0]

\* SystemTime::now().duration_since(UNIX_EPOCH)
DurationSince(now) ==
    IF now >= 0 THEN [ok |-> TRUE, val |-> now] ELSE [ok |-> FALSE, val |-> 0]

\* Duration::as_millis: whole milliseconds, the rest dropped
AsMillis(d) == d \div TicksPerMs

BumpKeep(ts, last, c) ==
    IF ts = last
    THEN [counter |-> c, last_timestamp |-> last]
    ELSE [counter |-> 0, last_timestamp |-> ts]

BumpAlwaysReset(ts, last, c) ==
    [counter |-> 0, last_timestamp |-> ts]

BumpResetOnAdvance(ts, last, c) ==
    IF ts = last
    THEN [counter |-> c + 1, last_timestamp |-> last]
    ELSE [counter |-> IF ts > last THEN 0 ELSE c + 1, last_timestamp |-> ts]

BumpFromOne(ts, last, c) ==
    IF ts = last
    THEN [counter |-> c + 1, last_timestamp |-> last]
    ELSE [counter |-> 1, last_timestamp |-> ts]

BumpNoRecord(ts, last, c) ==
    IF ts = last
    THEN [counter |-> c + 1, last_timestamp |-> last]
    ELSE [counter |-> 0, last_timestamp |-> last]

\* if timestamp == self.last_timestamp { self.counter += 1; }
\* else { self.counter = 0; self.last_timestamp = timestamp; }
Bump(ts, last, c) ==
    IF ts = last
    THEN [counter |-> c + 1, last_timestamp |-> last]
    ELSE [counter |-> 0, last_timestamp |-> ts]

GenerateRenames(now) ==
    LET d == DurationSince(now) IN
    IF ~d.ok
    THEN /\ pc' = "panicked"
         /\ timestamp' = NoTimestamp
         /\ ret' = <<>>
         /\ UNCHANGED fields
    ELSE LET ts == AsMillis(d.val)
             b == Bump(ts, last_timestamp, counter)
         IN /\ timestamp' = ts
            /\ counter' = b.counter
            /\ last_timestamp' = b.last_timestamp
            /\ ret' = FormatId(device_uuid, ts, FormatCounter(b.counter))
            /\ pc' = "returned"
            /\ device_uuid' = device_uuid \o <<HYPHEN>> \o ToDec(ts)

\* pub fn generate(&mut self) -> String, the clock showing instant `now`
Generate(now) ==
    LET d == DurationSince(now) IN
    IF ~d.ok
    THEN \* .expect("Time went backwards") panics before anything is written
         /\ pc' = "panicked"
         /\ timestamp' = NoTimestamp
         /\ ret' = <<>>
         /\ UNCHANGED fields
    ELSE LET ts == AsMillis(d.val)
             b == Bump(ts, last_timestamp, counter)
         IN /\ timestamp' = ts
            /\ counter' = b.counter
            /\ last_timestamp' = b.last_timestamp
            /\ ret' = FormatId(device_uuid, ts, FormatCounter(b.counter))
            /\ pc' = "returned"
            /\ UNCHANGED device_uuid

\* impl SQUID for SQUIDv0: the trait method hands the call to Self::generate
SQUID_generate(now) == Generate(now)

----------------------------------------------------------------------------
(* Callers *)

\* Bookkeeping of the scenario "the clock shows the same millisecond on n
\* calls in a row from construction on, then the next millisecond".
Track ==
    run' =
        IF pc' # "returned" THEN [phase |-> "mixed", t |-> 0, i |-> 0]
        ELSE IF run.phase = "fresh" THEN [phase |-> "steady", t |-> timestamp', i |-> 0]
        ELSE IF run.phase = "steady" /\ timestamp' = run.t
             THEN [phase |-> "steady", t |-> run.t, i |-> run.i + 1]
        ELSE IF run.phase = "steady" /\ timestamp' = run.t + 1
             THEN [phase |-> "rolled", t |-> run.t, i |-> 0]
        ELSE [phase |-> "mixed", t |-> 0, i |-> 0]

Instants == (0 - TicksPerMs) .. (TicksPerMs * (MaxTime + 1) - 1)

\* The loop of test_generate_unique_ids: call generate, keep what it returns.
\* The clock may show any instant at each call.
TestStep ==
    \E now \in Instants :
        /\ Len(reads) < MaxCalls
        /\ SQUID_generate(now)
        /\ before_epoch' = (now < 0)
        /\ reads' = Append(reads, timestamp')
        /\ generated_ids' = IF pc' = "returned" THEN Append(generated_ids, ret')
                            ELSE generated_ids
        /\ Track
        /\ UNCHANGED <<device_uuid_arg, machine_uuid_get>>
        /\ UNCHANGED shared

LongTimes == {0} \cup (MinLongTime .. MaxLongTime)

\* A caller in a tight loop that keeps no record of the IDs; the clock shows
\* the start of some millisecond of LongTimes at each call.
LongStep ==
    \E ms \in LongTimes :
        /\ counter < MaxCounter
        /\ SQUID_generate(ms * TicksPerMs)
        /\ before_epoch' = FALSE
        /\ Track
        /\ UNCHANGED <<device_uuid_arg, machine_uuid_get, generated_ids, reads>>
        /\ UNCHANGED shared

Next == TestStep

Spec == Init /\ [][Next]_vars

InitLong == Init /\ device_uuid_arg = Some(<<88, HYPHEN, 55>>) /\ machine_uuid_get = Err

NextLong == LongStep

SpecLong == InitLong /\ [][NextLong]_vars

----------------------------------------------------------------------------
(* One generator shared by concurrent callers behind a mutex *)

\* What the steps of a shared call leave alone: the single-caller bookkeeping.
single == <<device_uuid_arg, machine_uuid_get, pc, timestamp, ret, reads,
            before_epoch, run>>

\* The wall clock moves on; in this specification it never goes back.
Tick ==
    /\ clock < MaxClock
    /\ clock' = clock + 1
    /\ UNCHANGED <<fields, single, generated_ids, lock, callers>>

\* The caller takes the generator's mutex before it calls generate.
Lock(c) ==
    /\ callers[c].pc = "idle"
    /\ callers[c].n < MaxSharedCalls
    /\ lock = NoHolder
    /\ lock' = c
    /\ callers' = [callers EXCEPT ![c].pc = "read"]
    /\ UNCHANGED <<fields, single, generated_ids, clock>>

\* let timestamp = SystemTime::now().duration_since(UNIX_EPOCH).expect(..).as_millis();
ReadClock(c) ==
    /\ callers[c].pc = "read"
    /\ DurationSince(clock).ok
    /\ callers' = [callers EXCEPT ![c].pc = "update",
                                  ![c].timestamp = AsMillis(DurationSince(clock).val)]
    /\ UNCHANGED <<fields, single, generated_ids, clock, lock>>

\* the if / else on timestamp == self.last_timestamp
Update(c) ==
    /\ callers[c].pc = "update"
    /\ LET b == Bump(callers[c].timestamp, last_timestamp, counter)
       IN /\ counter' = b.counter
          /\ last_timestamp' = b.last_timestamp
    /\ callers' = [callers EXCEPT ![c].pc = "format"]
    /\ UNCHANGED <<device_uuid, single, generated_ids, clock, lock>>

\* the two format! calls and the return; the ID reaches the caller
Format(c) ==
    /\ callers[c].pc = "format"
    /\ generated_ids' = Append(generated_ids,
            FormatId(device_uuid, callers[c].timestamp, FormatCounter(counter)))
    /\ callers' = [callers EXCEPT ![c].pc = "unlock", ![c].n = @ + 1]
    /\ UNCHANGED <<fields, single, clock, lock>>

\* The caller releases the mutex after generate has returned.
Unlock(c) ==
    /\ callers[c].pc = "unlock"
    /\ lock = c
    /\ lock' = NoHolder
    /\ callers' = [callers EXCEPT ![c].pc = "idle"]
    /\ UNCHANGED <<fields, single, generated_ids, clock>>

NextShared ==
    \/ Tick
    \/ \E c \in Callers : Lock(c)
    \/ \E c \in Callers : ReadClock(c)
    \/ \E c \in Callers : Update(c)
    \/ \E c \in Callers : Format(c)
    \/ \E c \in Callers : Unlock(c)

SpecShared == Init /\ [][NextShared]_vars

----------------------------------------------------------------------------
(* Reading an ID back, and the order of Strings *)

IsDigit(b) == b >= ZERO /\ b <= ZERO + 9

AllDigits(s) == Len(s) >= 1 /\ \A k \in 1..Len(s) : IsDigit(s[k])

RECURSIVE ParseDec(_)
\* The number a digit string denotes (leading zeros allowed).
ParseDec(s) ==
    IF Len(s) = 0 THEN 0
    ELSE 10 * ParseDec(SubSeq(s, 1, Len(s) - 1)) + (s[Len(s)] - ZERO)

\* The position of the last hyphen of s, 0 when it has none.
LastHyphen(s) ==
    LET H == { k \in 1..Len(s) : s[k] = HYPHEN }
    IN IF H = {} THEN 0 ELSE CHOOSE k \in H : \A m \in H : m <= k

\* The last field of an ID, and the field between the identifier and it.
CounterField(s) == SubSeq(s, LastHyphen(s) + 1, Len(s))
TimestampField(s, uuid) == SubSeq(s, Len(uuid) + 2, LastHyphen(s) - 1)

StartsWith(s, p) == Len(s) >= Len(p) /\ SubSeq(s, 1, Len(p)) = p

\* Ord for String: byte-wise lexicographic, a proper prefix is smaller.
StrLess(a, b) ==
    \E k \in 1..(Len(b)) :
        /\ k <= Len(a) + 1
        /\ \A j \in 1..(k - 1) : a[j] = b[j]
        /\ (k = Len(a) + 1 \/ a[k] < b[k])

StrLeq(a, b) == a = b \/ StrLess(a, b)

PairLess(t1, c1, t2, c2) == t1 < t2 \/ (t1 = t2 /\ c1 < c2)

\* The readings of the calls that returned, in call order.
Successful == SelectSeq(reads, LAMBDA r : r # NoTimestamp)

NonDecreasing(s) == \A k \in 1..(Len(s) - 1) : s[k] <= s[k + 1]

LastRead == Successful[Len(Successful)]

----------------------------------------------------------------------------
(* C1: under a clock whose millisecond readings never decrease, the IDs    *)
(* one generator has returned to a single caller are pairwise distinct.    *)
C1_Unique ==
    NonDecreasing(Successful) =>
        \A i, j \in 1..Len(generated_ids) :
            i # j => generated_ids[i] # generated_ids[j]

\* three IDs returned under a non-decreasing clock, two of them in one millisecond
C1_Witness ==
    /\ Len(generated_ids) >= 3
    /\ NonDecreasing(Successful)
    /\ \E k \in 1..(Len(Successful) - 1) : Successful[k] = Successful[k + 1]
    /\ \E k \in 1..(Len(Successful) - 1) : Successful[k] < Successful[k + 1]

(* C2 as stated: after every returning call, (last_timestamp, counter) is  *)
(* strictly greater, lexicographically, than after the previous call, for  *)
(* every sequence of calls.                                                *)
C2_Original ==
    [][ (generated_ids # <<>> /\ pc' = "returned")
            => PairLess(last_timestamp, counter, last_timestamp', counter') ]_vars

(* C2 amended: the pair grows strictly at every returning call whose       *)
(* millisecond reading is not below the reading of the previous returning  *)
(* call.                                                                   *)
C2_PairGrows ==
    [][ (generated_ids # <<>> /\ pc' = "returned" /\ timestamp' >= LastRead)
            => PairLess(last_timestamp, counter, last_timestamp', counter') ]_vars

\* a call in the same millisecond followed by a call in a later one
C2_Witness ==
    /\ pc = "returned"
    /\ Len(Successful) >= 3
    /\ NonDecreasing(Successful)
    /\ Successful[Len(Successful) - 2] = Successful[Len(Successful) - 1]
    /\ Successful[Len(Successful) - 1] < LastRead
    /\ last_timestamp = LastRead /\ counter = 0

(* C3 as stated: of two successive returned IDs the later is >= the        *)
(* earlier as a String, when both timestamp fields have the same number of *)
(* digits and neither counter exceeds 9999.                                *)
C3_Original ==
    [][ (/\ pc = "returned" /\ pc' = "returned"
         /\ Len(TimestampField(ret, device_uuid)) = Len(TimestampField(ret', device_uuid))
         /\ counter <= 9999 /\ counter' <= 9999)
            => StrLeq(ret, ret') ]_vars

(* C3 amended: the same, for successive calls of which the later one's     *)
(* millisecond reading is not below the earlier one's.                     *)
C3_Sorted ==
    [][ (/\ pc = "returned" /\ pc' = "returned"
         /\ timestamp' >= timestamp
         /\ Len(TimestampField(ret, device_uuid)) = Len(TimestampField(ret', device_uuid))
         /\ counter <= 9999 /\ counter' <= 9999)
            => StrLeq(ret, ret') ]_vars

\* the 10000th ID of one millisecond: its predecessor carries counter 9998
C3_Witness ==
    /\ pc = "returned" /\ run.phase = "steady" /\ run.i = 9999
    /\ counter = 9999 /\ CounterField(ret) = <<57, 57, 57, 57>>

(* C4: when two consecutive calls observe the same millisecond, the second *)
(* emits a counter one greater than the first and leaves last_timestamp    *)
(* as it was.                                                              *)
C4_SameMs ==
    [][ (pc = "returned" /\ pc' = "returned" /\ timestamp' = timestamp)
            => /\ counter' = counter + 1
               /\ ParseDec(CounterField(ret')) = ParseDec(CounterField(ret)) + 1
               /\ last_timestamp' = last_timestamp ]_vars

\* three calls in one millisecond
C4_Witness ==
    /\ pc = "returned" /\ Len(reads) >= 3
    /\ reads[Len(reads)] = reads[Len(reads) - 1]
    /\ reads[Len(reads) - 1] = reads[Len(reads) - 2]
    /\ reads[Len(reads)] # NoTimestamp
    /\ counter >= 2

(* C5: a call that observes a millisecond different from last_timestamp,   *)
(* larger or smaller, emits counter 0 and records the observed             *)
(* millisecond in last_timestamp.                                          *)
C5_Reset ==
    [][ (pc' = "returned" /\ timestamp' # last_timestamp)
            => /\ counter' = 0
               /\ ParseDec(CounterField(ret')) = 0
               /\ last_timestamp' = timestamp' ]_vars

\* a counter above 0 reset by a call that observed an earlier millisecond
C5_Witness ==
    /\ pc = "returned" /\ counter = 0
    /\ Len(reads) >= 3
    /\ reads[Len(reads) - 2] = reads[Len(reads) - 1]
    /\ reads[Len(reads) - 1] # NoTimestamp
    /\ reads[Len(reads)] # NoTimestamp
    /\ reads[Len(reads)] < reads[Len(reads) - 1]
    /\ last_timestamp = reads[Len(reads)]

(* C6: a returned ID is machine_id, '-', the unpadded decimal timestamp,   *)
(* '-', and the decimal counter: zero-padded to 4 characters below 10000,  *)
(* in full (more than 4 digits) from 10000 on.                             *)
C6_Format ==
    pc = "returned" =>
        LET h == LastHyphen(ret)
            tf == TimestampField(ret, device_uuid)
            cf == CounterField(ret)
        IN /\ StartsWith(ret, device_uuid)
           /\ h > Len(device_uuid) + 1
           /\ ret[Len(device_uuid) + 1] = HYPHEN
           /\ AllDigits(tf) /\ ParseDec(tf) = timestamp
           /\ (Len(tf) > 1 => tf[1] # ZERO)
           /\ AllDigits(cf) /\ ParseDec(cf) = counter
           /\ (counter < 10000 => Len(cf) = 4)
           /\ (counter >= 10000 => Len(cf) > 4 /\ cf[1] # ZERO)

\* an ID with a five-digit counter and a two-digit timestamp
C6_Witness ==
    pc = "returned" /\ counter >= 10000 /\ timestamp >= 10

(* C7: on a fresh generator, while the clock shows one positive            *)
(* millisecond t, the call of index i emits counter i (index 9999 the text *)
(* 9999, index 10000 the text 10000); a following call that observes t + 1 *)
(* emits 0000.                                                             *)
C7_Scenario ==
    /\ (run.phase = "steady" /\ run.t > 0) =>
            /\ counter = run.i
            /\ ParseDec(CounterField(ret)) = run.i
            /\ (run.i = 9999 => CounterField(ret) = <<57, 57, 57, 57>>)
            /\ (run.i = 10000 => CounterField(ret) = <<49, 48, 48, 48, 48>>)
    /\ (run.phase = "rolled" /\ run.t > 0) =>
            /\ counter = 0
            /\ CounterField(ret) = <<48, 48, 48, 48>>

\* the 10001st call of one positive millisecond
C7_Witness ==
    run.phase = "steady" /\ run.t > 0 /\ run.i = 10000

(* C8: a call made while the clock shows an instant before the Unix epoch  *)
(* aborts, returns no ID and leaves machine_id, last_timestamp and counter *)
(* as they were.                                                           *)
C8_Abort ==
    [][ (reads' # reads /\ before_epoch')
            => /\ pc' = "panicked"
               /\ ret' = <<>>
               /\ generated_ids' = generated_ids
               /\ device_uuid' = device_uuid
               /\ last_timestamp' = last_timestamp
               /\ counter' = counter ]_vars

\* an aborted call on a generator that had already counted within a millisecond
C8_Witness ==
    /\ pc = "panicked" /\ before_epoch
    /\ counter >= 1 /\ last_timestamp >= 1
    /\ Len(generated_ids) = Len(reads) - 1

(* C9: a generator built with an explicit identifier stores exactly that   *)
(* string, whatever the host's identity lookup would answer, and every ID  *)
(* it returns begins with that string and a hyphen.                        *)
C9_Explicit ==
    device_uuid_arg.some =>
        /\ device_uuid = device_uuid_arg.val
        /\ \A k \in 1..Len(generated_ids) :
                StartsWith(generated_ids[k], device_uuid_arg.val \o <<HYPHEN>>)

\* IDs returned by a generator built with "X-7" on a host whose lookup succeeds
C9_Witness ==
    /\ device_uuid_arg.some /\ machine_uuid_get.ok
    /\ device_uuid_arg.val = <<88, 45, 55>>
    /\ Len(generated_ids) >= 2

(* C10: with no explicit identifier, new takes the host lookup's string    *)
(* when it succeeds and 00000000-0000-0000-0000-000000000000 when it       *)
(* fails; the generator new returns has counter = 0 and last_timestamp = 0.*)
C10_Construction ==
    /\ ~device_uuid_arg.some =>
            device_uuid =
                IF machine_uuid_get.ok THEN machine_uuid_get.val
                ELSE <<48, 48, 48, 48, 48, 48, 48, 48, 45, 48, 48, 48, 48, 45,
                       48, 48, 48, 48, 45, 48, 48, 48, 48, 45,
                       48, 48, 48, 48, 48, 48, 48, 48, 48, 48, 48, 48>>
    /\ pc = "new" => counter = 0 /\ last_timestamp = 0

\* a fresh generator on a host whose lookup fails
C10_Witness ==
    /\ pc = "new" /\ ~device_uuid_arg.some /\ ~machine_uuid_get.ok
    /\ Len(device_uuid) = 36

(* C11: when every generate call on a shared generator runs inside the     *)
(* generator's mutex and the clock never goes back, the IDs returned to    *)
(* all callers are pairwise distinct, in every interleaving.               *)
C11_SharedUnique ==
    \A i, j \in 1..Len(generated_ids) :
        i # j => generated_ids[i] # generated_ids[j]

\* both callers were served, and three IDs fell into one millisecond
C11_Witness ==
    /\ \A c \in Callers : callers[c].n >= 1
    /\ Len(generated_ids) >= 3
    /\ counter >= 2

C13_Frame ==
    /\ [](device_uuid = New(device_uuid_arg, machine_uuid_get).device_uuid)
    /\ [][ /\ device_uuid' = device_uuid
           /\ (<<counter', last_timestamp'>> # <<counter, last_timestamp>>
                  => reads' # reads /\ pc' = "returned") ]_vars

\* an aborted call after two that returned and moved both other fields
C13_Witness ==
    /\ pc = "panicked" /\ Len(generated_ids) = 2 /\ Len(reads) = 3
    /\ counter = 1 /\ last_timestamp > 0
    /\ StartsWith(generated_ids[2], device_uuid)

(* C14: after a call that returned, last_timestamp is the timestamp        *)
(* written in the returned ID and counter is the counter written in it.    *)
C14_StateMatchesId ==
    pc = "returned" =>
        /\ AllDigits(TimestampField(ret, device_uuid))
        /\ ParseDec(TimestampField(ret, device_uuid)) = last_timestamp
        /\ AllDigits(CounterField(ret))
        /\ ParseDec(CounterField(ret)) = counter

\* the clock went back to millisecond 0 and a second ID was made there
C14_Witness ==
    /\ pc = "returned" /\ run.phase = "mixed"
    /\ last_timestamp = 0 /\ counter = 1
    /\ CounterField(ret) = <<48, 48, 48, 49>>

(* C15: the first call on a fresh generator emits counter 0 (text 0000)    *)
(* and records the observed millisecond when that millisecond is 1 or      *)
(* more; when it is 0, equal to the initial last_timestamp, the call emits *)
(* counter 1 (text 0001).                                                  *)
C15_FirstCall ==
    (Len(reads) = 1 /\ pc = "returned") =>
        IF timestamp = 0
        THEN /\ counter = 1
             /\ CounterField(ret) = <<48, 48, 48, 49>>
             /\ last_timestamp = 0
        ELSE /\ counter = 0
             /\ CounterField(ret) = <<48, 48, 48, 48>>
             /\ last_timestamp = timestamp

\* a first call that observed millisecond 0
C15_Witness ==
    /\ Len(reads) = 1 /\ pc = "returned"
    /\ timestamp = 0 /\ counter = 1
====
